---------------------------- MODULE Spec2Model ----------------------------
(***************************************************************************)
(* Reconciliation engine of anki_con: NoteSet (src/src/ankicli/            *)
(* noteModule2.py) driving the remote flashcard store, and the legacy      *)
(* NoteSet.bulk_upload (src/noteModule.py) with card_gen / insert_card_id  *)
(* (src/parseModule.py).                                                   *)
(*                                                                         *)
(* A document is a sequence of lines.  A line is a record [k, f, n]:       *)
(*   k = "P" frontmatter line, "Q" question line (f = front text),         *)
(*   "A" answer line (f = back text), "I" identifier line (n = the id),    *)
(*   "T" any other text line.                                              *)
(* The table df is a sequence of rows [ix, is_card, id, front, back,       *)
(* text]; ix is the pandas index label, id = NaN stands for a missing id.  *)
(***************************************************************************)
EXTENDS Integers, Sequences, FiniteSets, TLC

VARIABLES
    doc,        \* the lines of the file at file_path
    df,         \* NoteSet.df, the table of rows
    pc,         \* position of the run: which operation comes next
    remote,     \* the store's notes: id -> [Front, Back, deck]
    decks,      \* the store's deck names
    nextId,     \* the next identifier the store assigns
    errlog,     \* error_log.txt: the rows appended by write_to_error_log
    calls,      \* the remote calls that succeeded in this run, in order
    last,       \* the last step: its name, how it ended, df and the log length when it began
    prev,       \* the previous run: how it ended and the calls it made
    run,        \* number of runs started
    fails,      \* number of remote calls that failed so far
    env,        \* number of changes made to the store by its user
    lfile,      \* legacy NoteSet: the lines of the file given to create_noteset_from_file
    file_lines, \* legacy NoteSet.file_lines
    allNotes,   \* legacy NoteSet.allNotes
    existingNotes, \* legacy NoteSet.existingNotes, as positions in allNotes
    newNotes,   \* legacy NoteSet.newNotes, as positions in allNotes
    notes_last_lines, \* legacy NoteSet.notes_last_lines
    prova,      \* the lines bulk_upload wrote to prova.md
    lpc         \* legacy NoteSet: which step comes next

evars == <<doc, df, pc, errlog, calls, last, prev, run, fails, env>>
svars == <<remote, decks, nextId>>
lvars == <<lfile, file_lines, allNotes, existingNotes, newNotes, notes_last_lines, prova, lpc>>
vars == <<evars, svars, lvars>>

----------------------------------------------------------------------------
(* Bounds of the model *)

MaxCards == 3      \* cards in the initial document
MaxRuns == 2       \* runs of the pipeline
MaxFails == 1      \* remote calls that fail
MaxEnv == 1        \* notes deleted in the store by its user

----------------------------------------------------------------------------
(* Values *)

NaN == 0
DeckName == "D"
OtherDeck == "O"
Blank == " "
Fronts == {"A", "B"}
Backs == {"x", "y"}
NoError == ""
DupError == "cannot create note because it is a duplicate"
EmptyError == "cannot create note because it is empty"

Line(k, f, n) == [k |-> k, f |-> f, n |-> n]
PLine == Line("P", "", 0)
TLine == Line("T", "", 0)
QLine(f) == Line("Q", f, 0)
ALine(b) == Line("A", b, 0)
ILine(i) == Line("I", "", i)

Range(s) == {s[i] : i \in 1..Len(s)}

RECURSIVE Flatten(_)
Flatten(ss) == IF ss = <<>> THEN <<>> ELSE Head(ss) \o Flatten(Tail(ss))

RECURSIVE SortedSeq(_)
SortedSeq(S) ==
    IF S = {} THEN <<>>
    ELSE LET m == CHOOSE x \in S : \A y \in S : x <= y
         IN <<m>> \o SortedSeq(S \ {m})

----------------------------------------------------------------------------
(* The document parser used by from_file *)

RECURSIVE CardExtent(_, _)
CardExtent(ls, n) ==
    IF n < Len(ls) /\ ls[n + 1].k \in {"A", "I"} THEN CardExtent(ls, n + 1) ELSE n

RECURSIVE PropsExtent(_, _)
PropsExtent(ls, n) ==
    IF n < Len(ls) /\ ls[n + 1].k = "P" THEN PropsExtent(ls, n + 1) ELSE n

extract_properties(ls) ==
    LET n == PropsExtent(ls, 0)
    IN [properties |-> SubSeq(ls, 1, n), lines |-> SubSeq(ls, n + 1, Len(ls))]

RECURSIVE group_lines(_)
group_lines(ls) ==
    IF ls = <<>> THEN <<>>
    ELSE LET n == IF ls[1].k = "Q" THEN CardExtent(ls, 1) ELSE 1
         IN <<SubSeq(ls, 1, n)>> \o group_lines(SubSeq(ls, n + 1, Len(ls)))

parse_card(g, return_empty) ==
    LET as == SelectSeq(g, LAMBDA l : l.k = "A")
        is == SelectSeq(g, LAMBDA l : l.k = "I")
        card == ~return_empty /\ g # <<>> /\ g[1].k = "Q" /\ as # <<>>
    IN [is_card |-> card,
        front |-> IF card THEN g[1].f ELSE "",
        back |-> IF card THEN as[1].f ELSE "",
        id |-> IF card /\ is # <<>> THEN is[1].n ELSE NaN]

Row(ix, g, c) ==
    [ix |-> ix, is_card |-> c.is_card, id |-> c.id,
     front |-> c.front, back |-> c.back, text |-> g]

NoIdText(text) == SelectSeq(text, LAMBDA l : l.k # "I")

insert_card_id_row(row) ==
    IF row.id = NaN THEN NoIdText(row.text)
    ELSE Append(NoIdText(row.text), ILine(row.id))

from_file(ls) ==
    LET ex == extract_properties(ls)
        gs == group_lines(ex.lines)
    IN <<Row(0, ex.properties, parse_card(ex.properties, TRUE))>>
       \o [i \in 1..Len(gs) |-> Row(i, gs[i], parse_card(gs[i], FALSE))]

Fields(row) == [Front |-> row.front, Back |-> row.back]

(* faulty variants of NewCards: the id, or is_card, is not looked at *)
NewCards_any_card(d) == SelectSeq(d, LAMBDA r : r.is_card)

NewCards_ignoring_is_card(d) == SelectSeq(d, LAMBDA r : r.id = NaN)

NewCards(d) == SelectSeq(d, LAMBDA r : r.is_card /\ r.id = NaN)
OldCards(d) == SelectSeq(d, LAMBDA r : r.is_card /\ r.id # NaN)
Ixs(d) == [i \in 1..Len(d) |-> d[i].ix]
IdsOf(d) == [i \in 1..Len(d) |-> d[i].id]
Payload(d) == [i \in 1..Len(d) |-> Fields(d[i])]

(* faulty variant of Update: rows are matched by position, not by index label *)
Update_by_position(d, u) ==
    [i \in 1..Len(d) |->
        IF i <= Len(u)
        THEN [d[i] EXCEPT !.id = IF u[i].id # NaN THEN u[i].id ELSE @, !.text = u[i].text]
        ELSE d[i]]

(* DataFrame.update: rows of d take, by index label, the non-NA values of u *)
Update(d, u) ==
    [i \in 1..Len(d) |->
        IF \E j \in 1..Len(u) : u[j].ix = d[i].ix
        THEN LET r == u[CHOOSE j \in 1..Len(u) : u[j].ix = d[i].ix]
             IN [d[i] EXCEPT !.id = IF r.id # NaN THEN r.id ELSE @, !.text = r.text]
        ELSE d[i]]

(* df.loc[u.index] = u: rows of d are replaced, by index label, by those of u *)
Assign(d, u) ==
    [i \in 1..Len(d) |->
        IF \E j \in 1..Len(u) : u[j].ix = d[i].ix
        THEN u[CHOOSE j \in 1..Len(u) : u[j].ix = d[i].ix]
        ELSE d[i]]

(* faulty variant of Without: no row is removed *)
Without_nothing(d, u) == d

(* df.loc[~df.index.isin(u.index)] *)
Without(d, u) == SelectSeq(d, LAMBDA r : r.ix \notin Range(Ixs(u)))

save_file(d) == Flatten([i \in 1..Len(d) |-> d[i].text])


----------------------------------------------------------------------------
(* The remote store behind request_action and deckModule *)

CanAddError(front, rem) ==
    IF front = Blank THEN EmptyError
    ELSE IF \E i \in DOMAIN rem : rem[i].Front = front THEN DupError
    ELSE NoError

canAddNotesWithErrorDetail(notes, rem) ==
    [i \in 1..Len(notes) |-> CanAddError(notes[i].Front, rem)]

RECURSIVE AddNotesRec(_, _, _, _)
AddNotesRec(notes, rem, nid, res) ==
    IF notes = <<>> THEN [remote |-> rem, nextId |-> nid, result |-> res]
    ELSE IF CanAddError(Head(notes).Front, rem) = NoError
         THEN AddNotesRec(Tail(notes),
                          rem @@ (nid :> [Front |-> Head(notes).Front,
                                          Back |-> Head(notes).Back,
                                          deck |-> DeckName]),
                          nid + 1, Append(res, nid))
         ELSE AddNotesRec(Tail(notes), rem, nid, Append(res, NaN))

addNotes(notes, rem, nid) == AddNotesRec(notes, rem, nid, <<>>)

NoInfo == [found |-> FALSE, Front |-> "", Back |-> ""]

notesInfo(ids, rem) ==
    [i \in 1..Len(ids) |->
        IF ids[i] \in DOMAIN rem
        THEN [found |-> TRUE, Front |-> rem[ids[i]].Front, Back |-> rem[ids[i]].Back]
        ELSE NoInfo]

findNotes(query, rem) == SortedSeq({i \in DOMAIN rem : rem[i].Front = query})

getDecks(ids, rem) ==
    [dk \in {rem[i].deck : i \in Range(ids) \cap DOMAIN rem} |->
        SelectSeq(ids, LAMBDA i : i \in DOMAIN rem /\ rem[i].deck = dk)]

changeDeck(ids, deck, rem) ==
    [i \in DOMAIN rem |->
        IF i \in Range(ids) THEN [rem[i] EXCEPT !.deck = deck] ELSE rem[i]]

updateNote(id, fields, rem) ==
    [i \in DOMAIN rem |->
        IF i = id THEN [rem[i] EXCEPT !.Front = fields.Front, !.Back = fields.Back]
        ELSE rem[i]]

deck_exists(name, dks) == name \in dks

create_deck(name, dks) == dks \cup {name}

Call(op, act, ixs, arg, res) ==
    [op |-> op, act |-> act, ixs |-> ixs, arg |-> arg, res |-> res]

(* What an operation leaves behind: how it ended ("ok", "transport" for a   *)
(* failed remote call, "crash" for an exception raised by the engine       *)
(* itself), the table, the store, the error log and the calls it made.      *)
Outcome(out, d, rem, dks, nid, elog, cs) ==
    [out |-> out, df |-> d, remote |-> rem, decks |-> dks, nextId |-> nid,
     errlog |-> elog, calls |-> cs]

----------------------------------------------------------------------------
(* NoteSet.check_deck *)

(* faulty variant of check_deck: the deck is created without regard to deck_exists *)
check_deck_always_creating(dks, f) ==
    LET c1 == Call("check_deck", "deck_exists", <<>>, DeckName, deck_exists(DeckName, dks))
        c2 == Call("check_deck", "createDeck", <<>>, DeckName, TRUE)
    IN  IF f = 1 THEN Outcome("transport", df, remote, dks, nextId, errlog, <<>>)
        ELSE IF f = 2 THEN Outcome("transport", df, remote, dks, nextId, errlog, <<c1>>)
        ELSE Outcome("ok", df, remote, create_deck(DeckName, dks), nextId, errlog,
                     <<c1, c2>>)

check_deck(dks, f) ==
    LET c1 == Call("check_deck", "deck_exists", <<>>, DeckName, deck_exists(DeckName, dks))
        c2 == Call("check_deck", "createDeck", <<>>, DeckName, TRUE)
    IN  IF f = 1 THEN Outcome("transport", df, remote, dks, nextId, errlog, <<>>)
        ELSE IF deck_exists(DeckName, dks)
             THEN Outcome("ok", df, remote, dks, nextId, errlog, <<c1>>)
        ELSE IF f = 2 THEN Outcome("transport", df, remote, dks, nextId, errlog, <<c1>>)
        ELSE Outcome("ok", df, remote, create_deck(DeckName, dks), nextId, errlog,
                     <<c1, c2>>)

----------------------------------------------------------------------------
(* NoteSet.check_notes and its helpers *)

find_error_notes(new, errs) ==
    LET e == [i \in 1..Len(new) |-> [row |-> new[i], error |-> errs[i]]]
    IN SelectSeq(e, LAMBDA x : x.error # NoError)

DuplicateNotes(e_df) == SelectSeq(e_df, LAMBDA x : x.error = DupError)

repair_duplicate_notes(e_df, finds) ==
    LET dup_df == DuplicateNotes(e_df)
    IN [i \in 1..Len(dup_df) |->
          LET r == [dup_df[i].row EXCEPT !.id = finds[i][1]]
          IN [r EXCEPT !.text = insert_card_id_row(r)]]

(* faulty variant of repair_errors: the repaired duplicates stay in the error set *)
repair_errors_keeping_duplicates(new, e_all, finds) ==
    [df |-> Update(new, repair_duplicate_notes(e_all, finds)), e_df |-> e_all]

repair_errors(new, e_all, finds) ==
    LET dup_df == repair_duplicate_notes(e_all, finds)
    IN [df |-> Update(new, dup_df),
        e_df |-> SelectSeq(e_all, LAMBDA x : x.row.ix \notin Range(Ixs(dup_df)))]

(* faulty variant of find_deleted_notes: the two frames are exchanged *)
find_deleted_notes_swapped(d, queried_notes) ==
    LET p == [i \in 1..Len(d) |-> [row |-> d[i], q |-> queried_notes[i]]]
        pick(b) == LET s == SelectSeq(p, LAMBDA x : x.q.found = b)
                   IN [i \in 1..Len(s) |-> s[i].row]
    IN [df |-> pick(FALSE), deleted_notes |-> pick(TRUE)]

find_deleted_notes(d, queried_notes) ==
    LET p == [i \in 1..Len(d) |-> [row |-> d[i], q |-> queried_notes[i]]]
        pick(b) == LET s == SelectSeq(p, LAMBDA x : x.q.found = b)
                   IN [i \in 1..Len(s) |-> s[i].row]
    IN [df |-> pick(TRUE), deleted_notes |-> pick(FALSE)]

(* faulty variant of repair_deleted_notes: the text is rewritten, the id is not cleared *)
repair_deleted_notes_keeping_id(deleted_notes) ==
    [i \in 1..Len(deleted_notes) |->
        [deleted_notes[i] EXCEPT !.text = NoIdText(@)]]

repair_deleted_notes(deleted_notes) ==
    [i \in 1..Len(deleted_notes) |->
        LET r == [deleted_notes[i] EXCEPT !.id = NaN]
        IN [r EXCEPT !.text = insert_card_id_row(r)]]

(* faulty variant of wrong_deck_ids: the ids of the right deck are collected *)
wrong_deck_ids_of_same_deck(df_ids, deck_dict, deck_name) ==
    SelectSeq(df_ids, LAMBDA i :
        \E key \in DOMAIN deck_dict : key = deck_name /\ i \in Range(deck_dict[key]))

wrong_deck_ids(df_ids, deck_dict, deck_name) ==
    SelectSeq(df_ids, LAMBDA i :
        \E key \in DOMAIN deck_dict : key # deck_name /\ i \in Range(deck_dict[key]))

LogEntry(e_df) ==
    [i \in 1..Len(e_df) |->
        [ix |-> e_df[i].row.ix, front |-> e_df[i].row.front,
         back |-> e_df[i].row.back, error |-> e_df[i].error]]

ErrRows(e_df) == [i \in 1..Len(e_df) |-> e_df[i].row]

check_notes(f) ==
    LET new == NewCards(df)
        errs == canAddNotesWithErrorDetail(Payload(new), remote)
        e_all == find_error_notes(new, errs)
        dups == DuplicateNotes(e_all)
        nd == Len(dups)
        finds == [i \in 1..nd |-> findNotes(dups[i].row.front, remote)]
        empties == {i \in 1..nd : finds[i] = <<>>}
        crash == empties # {}
        kA == 1 + (IF crash THEN CHOOSE i \in empties : \A j \in empties : i <= j ELSE nd)
        cA == <<Call("check_notes", "canAddNotesWithErrorDetail", Ixs(new), Payload(new), errs)>>
              \o [i \in 1..nd |->
                    Call("check_notes", "findNotes", <<dups[i].row.ix>>,
                         dups[i].row.front, finds[i])]
        rep == repair_errors(new, e_all, finds)
        e_df == rep.e_df
        elog == IF Len(e_df) # 0 THEN Append(errlog, LogEntry(e_df)) ELSE errlog
        dfn == IF Len(e_df) # 0 THEN Without(rep.df, ErrRows(e_df)) ELSE rep.df
        df1 == Without(Update(df, dfn), ErrRows(e_df))
        old == OldCards(df1)
        info == notesInfo(IdsOf(old), remote)
        cI == Call("check_notes", "notesInfo", Ixs(old), IdsOf(old), info)
        fd == find_deleted_notes(old, info)
        df2 == IF fd.deleted_notes # <<>>
               THEN Assign(df1, repair_deleted_notes(fd.deleted_notes))
               ELSE df1
        surv == fd.df
        deck_dict == getDecks(IdsOf(surv), remote)
        cG == Call("check_notes", "getDecks", Ixs(surv), IdsOf(surv), deck_dict)
        wrong == wrong_deck_ids(IdsOf(surv), deck_dict, DeckName)
        cC == Call("check_notes", "changeDeck", <<>>, wrong, DeckName)
    IN  IF f \in 1..kA
        THEN Outcome("transport", df, remote, decks, nextId, errlog, SubSeq(cA, 1, f - 1))
        ELSE IF crash
        THEN Outcome("crash", df, remote, decks, nextId, errlog, SubSeq(cA, 1, kA))
        ELSE IF f = kA + 1
        THEN Outcome("transport", df1, remote, decks, nextId, elog, cA)
        ELSE IF surv = <<>>
        THEN Outcome("ok", df2, remote, decks, nextId, elog, Append(cA, cI))
        ELSE IF f = kA + 2
        THEN Outcome("transport", df2, remote, decks, nextId, elog, Append(cA, cI))
        ELSE IF f = kA + 3
        THEN Outcome("transport", df2, remote, decks, nextId, elog, cA \o <<cI, cG>>)
        ELSE Outcome("ok", df2, changeDeck(wrong, DeckName, remote),
                     decks \cup {DeckName}, nextId, elog, cA \o <<cI, cG, cC>>)

----------------------------------------------------------------------------
(* NoteSet.upload_new_notes *)

add_notes(new, rem, nid) == addNotes(Payload(new), rem, nid)

(* faulty variant of assign_ids: the result is read from its end *)
assign_ids_reversed(new, df_ids) ==
    [i \in 1..Len(new) |->
        LET w == [new[i] EXCEPT !.id = df_ids[Len(new) + 1 - i]]
        IN [w EXCEPT !.text = insert_card_id_row(w)]]

(* df["id"] = df_ids; df["text"] = df.apply(insert_card_id, axis=1) *)
assign_ids(new, df_ids) ==
    [i \in 1..Len(new) |->
        LET w == [new[i] EXCEPT !.id = df_ids[i]]
        IN [w EXCEPT !.text = insert_card_id_row(w)]]

upload_new_notes(f) ==
    LET new == NewCards(df)
        r == add_notes(new, remote, nextId)
        up == assign_ids(new, r.result)
        cA == Call("upload_new_notes", "addNotes", Ixs(new), Payload(new), r.result)
    IN  IF new = <<>>
        THEN Outcome("ok", df, remote, decks, nextId, errlog, <<>>)
        ELSE IF f = 1
        THEN Outcome("transport", df, remote, decks, nextId, errlog, <<>>)
        ELSE Outcome("ok", Update(df, up), r.remote, decks, r.nextId, errlog, <<cA>>)

----------------------------------------------------------------------------
(* NoteSet.update_existing_notes *)

(* faulty variant of QueriedFields: the empty entries are kept, with empty fields *)
QueriedFields_keeping_empty(queried_notes) ==
    [i \in 1..Len(queried_notes) |->
        [Front |-> queried_notes[i].Front, Back |-> queried_notes[i].Back]]

QueriedFields(queried_notes) ==
    LET q == SelectSeq(queried_notes, LAMBDA x : x.found)
    IN [i \in 1..Len(q) |-> [Front |-> q[i].Front, Back |-> q[i].Back]]

(* faulty variant of find_updatable_notes: the comparison is inverted *)
find_updatable_notes_inverted(d, queried_fields) ==
    LET p == [i \in 1..Len(d) |-> [row |-> d[i], q |-> queried_fields[i]]]
        pick(b) == LET s == SelectSeq(p, LAMBDA x : (Fields(x.row) = x.q) = b)
                   IN [i \in 1..Len(s) |-> s[i].row]
    IN [updatable_notes |-> pick(TRUE), up_to_date_notes |-> pick(FALSE)]

find_updatable_notes(d, queried_fields) ==
    LET p == [i \in 1..Len(d) |-> [row |-> d[i], q |-> queried_fields[i]]]
        pick(b) == LET s == SelectSeq(p, LAMBDA x : (Fields(x.row) # x.q) = b)
                   IN [i \in 1..Len(s) |-> s[i].row]
    IN [updatable_notes |-> pick(TRUE), up_to_date_notes |-> pick(FALSE)]

RECURSIVE UpdateAll(_, _, _)
UpdateAll(nl, k, rem) ==
    IF k = 0 THEN rem
    ELSE updateNote(nl[k].id, Fields(nl[k]), UpdateAll(nl, k - 1, rem))

update_existing_notes(f) ==
    LET old == OldCards(df)
        info == notesInfo(IdsOf(old), remote)
        cI == Call("update_existing_notes", "notesInfo", Ixs(old), IdsOf(old), info)
        qf == QueriedFields(info)
        nl == find_updatable_notes(old, qf).updatable_notes
        cU == [i \in 1..Len(nl) |->
                 Call("update_existing_notes", "updateNote", <<nl[i].ix>>,
                      [id |-> nl[i].id, fields |-> Fields(nl[i])], TRUE)]
    IN  IF old = <<>>
        THEN Outcome("ok", df, remote, decks, nextId, errlog, <<>>)
        ELSE IF f = 1
        THEN Outcome("transport", df, remote, decks, nextId, errlog, <<>>)
        ELSE IF Len(qf) # Len(old)
        THEN Outcome("crash", df, remote, decks, nextId, errlog, <<cI>>)
        ELSE IF f \in 2..(Len(nl) + 1)
        THEN Outcome("transport", df, UpdateAll(nl, f - 2, remote), decks, nextId,
                     errlog, <<cI>> \o SubSeq(cU, 1, f - 2))
        ELSE Outcome("ok", df, UpdateAll(nl, Len(nl), remote), decks, nextId,
                     errlog, <<cI>> \o cU)

----------------------------------------------------------------------------
(* The run: from_file, check_deck, check_notes, upload_new_notes,          *)
(* update_existing_notes, save_file.  An operation that raises ends the    *)
(* run; the next run starts from the file.                                 *)

NextPc(p) ==
    CASE p = "loaded" -> "deck_checked"
      [] p = "deck_checked" -> "notes_checked"
      [] p = "notes_checked" -> "uploaded"
      [] p = "uploaded" -> "updated"

(* the largest number of remote calls one operation makes on the table d *)
CallBound(d) == Len(d) + 4

Step(op, o, f) ==
    /\ f > 0 => o.out = "transport" /\ fails < MaxFails
    /\ pc' = IF o.out = "ok" THEN NextPc(pc) ELSE "aborted"
    /\ df' = o.df
    /\ remote' = o.remote
    /\ decks' = o.decks
    /\ nextId' = o.nextId
    /\ errlog' = o.errlog
    /\ calls' = calls \o o.calls
    /\ last' = [op |-> op, out |-> o.out, df0 |-> df, e0 |-> Len(errlog)]
    /\ fails' = IF o.out = "transport" THEN fails + 1 ELSE fails
    /\ UNCHANGED <<doc, prev, run, env, lvars>>

FromFile ==
    /\ pc \in {"init", "saved", "aborted"}
    /\ run < MaxRuns
    /\ pc' = "loaded"
    /\ df' = from_file(doc)
    /\ calls' = <<>>
    /\ prev' = [out |-> pc, calls |-> calls]
    /\ last' = [op |-> "from_file", out |-> "ok", df0 |-> <<>>, e0 |-> Len(errlog)]
    /\ run' = run + 1
    /\ UNCHANGED <<doc, remote, decks, nextId, errlog, fails, env, lvars>>

CheckDeck ==
    /\ pc = "loaded"
    /\ \E f \in 0..2 : Step("check_deck", check_deck(decks, f), f)

CheckNotes ==
    /\ pc = "deck_checked"
    /\ \E f \in 0..CallBound(df) : Step("check_notes", check_notes(f), f)

UploadNewNotes ==
    /\ pc = "notes_checked"
    /\ \E f \in 0..1 : Step("upload_new_notes", upload_new_notes(f), f)

UpdateExistingNotes ==
    /\ pc = "uploaded"
    /\ \E f \in 0..CallBound(df) : Step("update_existing_notes", update_existing_notes(f), f)

SaveFile ==
    /\ pc = "updated"
    /\ doc' = save_file(df)
    /\ pc' = "saved"
    /\ last' = [op |-> "save_file", out |-> "ok", df0 |-> df, e0 |-> Len(errlog)]
    /\ UNCHANGED <<df, remote, decks, nextId, errlog, calls, prev, run, fails, env, lvars>>

(* The user of the store deletes a note of the document after check_notes has run *)
RemoteDelete ==
    /\ env < MaxEnv
    /\ pc \in {"notes_checked", "uploaded"}
    /\ \E i \in DOMAIN remote \cap Range(IdsOf(df)) :
          remote' = [j \in DOMAIN remote \ {i} |-> remote[j]]
    /\ env' = env + 1
    /\ last' = [op |-> "remote_delete", out |-> "ok", df0 |-> df, e0 |-> Len(errlog)]
    /\ UNCHANGED <<doc, df, pc, decks, nextId, errlog, calls, prev, run, fails, lvars>>

----------------------------------------------------------------------------
(* Initial states: the file and the store as an earlier sync and later    *)
(* edits left them.  The document holds up to MaxCards cards: new ones     *)
(* (any front and back, or a blank front, which the store refuses as       *)
(* empty) and ones carrying the identifier 1 or 2, no identifier twice.    *)
(* The store holds some of the notes 1 and 2 (note 1 possibly in another   *)
(* deck) and the decks of its notes.                                       *)

InitIds == {1, 2}

CardLines(front, back, id) ==
    <<QLine(front), ALine(back)>> \o (IF id = NaN THEN <<>> ELSE <<ILine(id)>>)

NewKinds ==
    {CardLines(f, b, NaN) : f \in Fronts, b \in Backs} \cup {CardLines(Blank, "x", NaN)}

OldKinds ==
    {CardLines(fb[1], fb[2], i) : fb \in {<<"A", "x">>, <<"B", "x">>, <<"A", "y">>},
                                  i \in InitIds}

DocIds(d) == {d[i].n : i \in {j \in 1..Len(d) : d[j].k = "I"}}

RECURSIVE Docs(_)
Docs(n) ==
    IF n = 0 THEN {<<>>}
    ELSE LET shorter == Docs(n - 1)
             full == {s \in shorter : Len(group_lines(s)) = n - 1}
         IN shorter
            \cup {d \o c : d \in full, c \in NewKinds}
            \cup {dc \in {d \o c : d \in full, c \in OldKinds} :
                     Cardinality(DocIds(dc)) = Len(SelectSeq(dc, LAMBDA l : l.k = "I"))}

(* the fronts "A" and "B" are interchangeable: the first card's front is "A" or blank *)
InitDocs ==
    {<<PLine>> \o d \o <<TLine>> : d \in {s \in Docs(MaxCards) \ {<<>>} : s[1].f # "B"}}

InitNote(i) ==
    {[Front |-> f, Back |-> "x", deck |-> dk] :
        f \in Fronts, dk \in IF i = 1 THEN {DeckName, OtherDeck} ELSE {DeckName}}

InitRemotes ==
    UNION {{r \in [S -> UNION {InitNote(i) : i \in S}] : \A i \in S : r[i] \in InitNote(i)} :
           S \in SUBSET InitIds}

NoLegacy ==
    /\ lfile = <<>>
    /\ file_lines = <<>>
    /\ allNotes = <<>>
    /\ existingNotes = <<>>
    /\ newNotes = <<>>
    /\ notes_last_lines = <<>>
    /\ prova = <<>>
    /\ lpc = "none"

NoEngine ==
    /\ doc = <<>>
    /\ df = <<>>
    /\ pc = "none"
    /\ errlog = <<>>
    /\ calls = <<>>
    /\ last = [op |-> "none", out |-> "ok", df0 |-> <<>>, e0 |-> 0]
    /\ prev = [out |-> "none", calls |-> <<>>]
    /\ run = 0
    /\ fails = 0
    /\ env = 0

FirstNewId == Cardinality(InitIds) + 1

Init ==
    /\ NoLegacy
    /\ doc \in InitDocs
    /\ remote \in InitRemotes
    /\ decks = {remote[i].deck : i \in DOMAIN remote}
    /\ nextId = FirstNewId
    /\ df = <<>>
    /\ pc = "init"
    /\ errlog = <<>>
    /\ calls = <<>>
    /\ last = [op |-> "none", out |-> "ok", df0 |-> <<>>, e0 |-> 0]
    /\ prev = [out |-> "none", calls |-> <<>>]
    /\ run = 0
    /\ fails = 0
    /\ env = 0

Next ==
    \/ FromFile
    \/ CheckDeck
    \/ CheckNotes
    \/ UploadNewNotes
    \/ UpdateExistingNotes
    \/ SaveFile
    \/ RemoteDelete

Spec == Init /\ [][Next]_vars

----------------------------------------------------------------------------
(* The legacy NoteSet (src/noteModule.py) and its parser (src/parseModule.py). *)
(* card_gen classifies a line by the first regular expression that matches: *)
(* question ("Q"), answer ("A"), id ("I"), then empty_line, which any other *)
(* line ending in a newline matches ("P" and "T").                          *)
(* An id of a legacy Note is None, an integer or, after bulk_upload, the    *)
(* error text of the store: [n, s] with n = NaN, s = "" for None.           *)

NoneId == [n |-> NaN, s |-> ""]
IntId(k) == [n |-> k, s |-> ""]
StrId(e) == [n |-> NaN, s |-> e]

id_format(id) == IF id.s = "" THEN ILine(id.n) ELSE Line("T", id.s, 0)

std_dict == [Front |-> "", Back |-> <<>>, id |-> NoneId]

RECURSIVE card_gen_from(_, _, _)
card_gen_from(lines, i, card_dict) ==
    IF i >= Len(lines) THEN <<>>
    ELSE LET line == lines[i + 1]
         IN IF line.k = "Q"
            THEN card_gen_from(lines, i + 1, [card_dict EXCEPT !.Front = line.f])
            ELSE IF line.k = "A"
            THEN card_gen_from(lines, i + 1, [card_dict EXCEPT !.Back = Append(@, line.f)])
            ELSE IF line.k = "I"
            THEN card_gen_from(lines, i + 1, [card_dict EXCEPT !.id = IntId(line.n)])
            ELSE IF line.k \in {"P", "T"} /\ card_dict.Front # "" /\ card_dict.Back # <<>>
            THEN <<[card |-> card_dict, index |-> i]>> \o card_gen_from(lines, i + 1, std_dict)
            ELSE card_gen_from(lines, i + 1, card_dict)

card_gen(lines) == card_gen_from(lines, 0, std_dict)

insert_card_id(lines, index, id) ==
    LET at == IF index > Len(lines) THEN Len(lines) ELSE index
    IN SubSeq(lines, 1, at) \o <<id_format(id)>> \o SubSeq(lines, at + 1, Len(lines))

(* sort_notes: the positions in allNotes of the notes with, and without, an id *)
sort_notes(notes) ==
    [existingNotes |-> SelectSeq([i \in 1..Len(notes) |-> i], LAMBDA i : notes[i].id # NoneId),
     newNotes |-> SelectSeq([i \in 1..Len(notes) |-> i], LAMBDA i : notes[i].id = NoneId)]

create_noteset_from_file(lines) ==
    LET gen == card_gen(lines)
        notes == [i \in 1..Len(gen) |-> gen[i].card]
        lasts == [i \in 1..Len(gen) |-> gen[i].index]
        sorted == sort_notes(notes)
        news == {notes[sorted.newNotes[k]] : k \in 1..Len(sorted.newNotes)}
        kept == SelectSeq([i \in 1..Len(notes) |-> i], LAMBDA i : notes[i] \in news)
    IN [file_lines |-> lines, allNotes |-> notes,
        existingNotes |-> sorted.existingNotes, newNotes |-> sorted.newNotes,
        notes_last_lines |-> [k \in 1..Len(kept) |-> lasts[kept[k]]]]

(* bulk_upload, lines 113-123: the ids of addNotes, the None entries replaced by the
   error texts of canAddNotesWithErrorDetail *)
bulk_result(notes, rem, nid) ==
    LET r == addNotes(notes, rem, nid)
        errors == canAddNotesWithErrorDetail(notes, r.remote)
    IN [remote |-> r.remote, nextId |-> r.nextId,
        result |-> [i \in 1..Len(notes) |->
                      IF r.result[i] # NaN THEN IntId(r.result[i]) ELSE StrId(errors[i])]]

(* faulty variant of shifted_last_line: the earlier insertions are not counted *)
unshifted_last_line(lasts, i) == lasts[i + 1]

(* bulk_upload, line 130, for the i-th new note counted from 0 *)
shifted_last_line(lasts, i) == lasts[i + 1] + i

(* bulk_upload, lines 126-132, after the first k iterations *)
RECURSIVE insert_ids(_, _, _, _)
insert_ids(lines, lasts, result, k) ==
    IF k = 0 THEN lines
    ELSE insert_card_id(insert_ids(lines, lasts, result, k - 1),
                        shifted_last_line(lasts, k - 1), result[k])

(* Note.update for the existing notes, in order; a note the store does not hold makes
   get_deck raise *)
RECURSIVE update_notes(_, _, _)
update_notes(notes, k, rem) ==
    IF k = 0 THEN rem
    ELSE LET n == notes[k]
             before == update_notes(notes, k - 1, rem)
             moved == IF before[n.id.n].deck # DeckName
                      THEN changeDeck(<<n.id.n>>, DeckName, before) ELSE before
         IN updateNote(n.id.n, [Front |-> n.Front, Back |-> n.Back], moved)

CreateNotesetFromFile ==
    /\ lpc = "file"
    /\ LET nset == create_noteset_from_file(lfile)
       IN /\ file_lines' = nset.file_lines
          /\ allNotes' = nset.allNotes
          /\ existingNotes' = nset.existingNotes
          /\ newNotes' = nset.newNotes
          /\ notes_last_lines' = nset.notes_last_lines
    /\ lpc' = "created"
    /\ UNCHANGED <<lfile, prova, evars, svars>>

BulkUpload ==
    /\ lpc = "created"
    /\ LET news == [k \in 1..Len(newNotes) |-> allNotes[newNotes[k]]]
           olds == [k \in 1..Len(existingNotes) |-> allNotes[existingNotes[k]]]
           r == bulk_result(news, remote, nextId)
           lines == insert_ids(file_lines, notes_last_lines, r.result, Len(news))
           notes == [i \in 1..Len(allNotes) |->
                       IF \E k \in 1..Len(newNotes) : newNotes[k] = i
                       THEN [allNotes[i] EXCEPT !.id =
                               r.result[CHOOSE k \in 1..Len(newNotes) : newNotes[k] = i]]
                       ELSE allNotes[i]]
           stale == \E k \in 1..Len(olds) : olds[k].id.n \notin DOMAIN r.remote
           sorted == sort_notes(notes)
       IN /\ file_lines' = lines
          /\ allNotes' = notes
          /\ notes_last_lines' =
                [k \in 1..Len(notes_last_lines) |-> shifted_last_line(notes_last_lines, k - 1)]
          /\ decks' = create_deck(DeckName, decks)
          /\ nextId' = r.nextId
          /\ IF stale
             THEN /\ remote' = r.remote
                  /\ lpc' = "crashed"
                  /\ UNCHANGED <<existingNotes, newNotes, prova>>
             ELSE /\ remote' = update_notes(olds, Len(olds), r.remote)
                  /\ existingNotes' = sorted.existingNotes
                  /\ newNotes' = sorted.newNotes
                  /\ prova' = lines
                  /\ lpc' = "uploaded"
    /\ UNCHANGED <<lfile, evars>>

(* Files of the legacy NoteSet: the two "---" lines of the frontmatter, then up to
   MaxBlocks blocks: cards without and with an identifier, stray lines, a card with a
   blank line inside, a card without a terminating line. *)
MaxBlocks == 4

Blocks ==
    {<<QLine("A"), ALine("x"), TLine>>,
     <<QLine("B"), ALine("x"), TLine>>,
     <<QLine("A"), ALine("x"), ALine("y"), TLine>>,
     <<QLine("A"), ALine("x"), ILine(1), TLine>>,
     <<QLine("B"), ALine("y"), ILine(2), TLine>>,
     <<TLine>>,
     <<ILine(1)>>,
     <<ALine("y")>>,
     <<QLine("B"), TLine, ALine("y"), TLine>>,
     <<QLine("A"), ALine("y")>>}

RECURSIVE BlockFiles(_)
BlockFiles(n) ==
    IF n = 0 THEN {<<>>}
    ELSE {b \o d : b \in Blocks, d \in BlockFiles(n - 1)} \cup BlockFiles(n - 1)

LegacyFiles == {<<PLine, PLine>> \o d : d \in BlockFiles(MaxBlocks)}

LegacyRemotes ==
    {<<>>,
     1 :> [Front |-> "A", Back |-> <<"x">>, deck |-> DeckName],
     1 :> [Front |-> "B", Back |-> <<"x">>, deck |-> OtherDeck]}

InitLegacy ==
    /\ NoEngine
    /\ lfile \in LegacyFiles
    /\ remote \in LegacyRemotes
    /\ decks = {remote[i].deck : i \in DOMAIN remote}
    /\ nextId = FirstNewId
    /\ file_lines = <<>>
    /\ allNotes = <<>>
    /\ existingNotes = <<>>
    /\ newNotes = <<>>
    /\ notes_last_lines = <<>>
    /\ prova = <<>>
    /\ lpc = "file"

NextLegacy ==
    \/ CreateNotesetFromFile
    \/ BulkUpload

SpecLegacy == InitLegacy /\ [][NextLegacy]_vars

----------------------------------------------------------------------------
(* Observations on the log of calls *)

CallsOf(cs, op, act) == SelectSeq(cs, LAMBDA c : c.op = op /\ c.act = act)

RowsAt(d, ix) == SelectSeq(d, LAMBDA r : r.ix = ix)

(* the operations of the current run that have completed include op *)
After(op) ==
    /\ last.op \in {"check_notes", "upload_new_notes", "update_existing_notes", "save_file"}
    /\ last.op = op => last.out = "ok"
    /\ op = "upload_new_notes" => last.op # "check_notes"
    /\ op = "update_existing_notes" => last.op \notin {"check_notes", "upload_new_notes"}

Just(op) == last.op = op /\ last.out = "ok"

(* the index labels in the payloads of the calls of one action *)
Submitted(cs, act) ==
    UNION {Range(cs[k].ixs) : k \in {j \in 1..Len(cs) : cs[j].act = act}}

(* the index labels the store gave an identifier to in an addNotes call *)
Created(cs) ==
    UNION {{cs[k].ixs[i] : i \in {j \in 1..Len(cs[k].ixs) : cs[k].res[j] # NaN}} :
           k \in {j \in 1..Len(cs) : cs[j].act = "addNotes"}}

Cards(d) == SelectSeq(d, LAMBDA r : r.is_card)

InSync(r) ==
    /\ r.id # NaN
    /\ r.id \in DOMAIN remote
    /\ Fields(r) = [Front |-> remote[r.id].Front, Back |-> remote[r.id].Back]

----------------------------------------------------------------------------
(* C1. Idempotence: after one complete run, a second complete run on the   *)
(* saved document, with no change and no failure on the store's side in    *)
(* between, issues no addNotes call with a non-empty payload and no        *)
(* updateNote call, and every card row ends with a non-null id whose       *)
(* remote fields equal the row's local fields.                             *)
C1_Idempotence ==
    (pc = "saved" /\ run = 2 /\ prev.out = "saved" /\ env = 0 /\ fails = 0) =>
        /\ Submitted(calls, "addNotes") = {}
        /\ CallsOf(calls, "update_existing_notes", "updateNote") = <<>>
        /\ \A i \in 1..Len(df) : df[i].is_card => InSync(df[i])

----------------------------------------------------------------------------
(* The calls of the current run, by operation *)

CanAddCall == CallsOf(calls, "check_notes", "canAddNotesWithErrorDetail")[1]
FindCalls == CallsOf(calls, "check_notes", "findNotes")
CheckInfo == CallsOf(calls, "check_notes", "notesInfo")[1]
GetDecksCalls == CallsOf(calls, "check_notes", "getDecks")
ChangeDeckCalls == CallsOf(calls, "check_notes", "changeDeck")
AddCalls == CallsOf(calls, "upload_new_notes", "addNotes")
UpdateInfo == CallsOf(calls, "update_existing_notes", "notesInfo")
UpdateCalls == CallsOf(calls, "update_existing_notes", "updateNote")

(* the index labels of the rows for which canAddNotesWithErrorDetail reported e *)
Reported(e) ==
    {CanAddCall.ixs[i] : i \in {j \in 1..Len(CanAddCall.ixs) : e[CanAddCall.res[j]]}}

IsDup == [e \in {NoError, DupError, EmptyError} |-> e = DupError]
IsOther == [e \in {NoError, DupError, EmptyError} |-> e \notin {NoError, DupError}]
IsNone == [e \in {NoError, DupError, EmptyError} |-> e = NoError]

(* the index labels logged by the check_notes of this run *)
Logged ==
    UNION {{errlog[k][i].ix : i \in 1..Len(errlog[k])} : k \in (last.e0 + 1)..Len(errlog)}

(* the index labels of the rows whose notesInfo entry in check_notes was empty (b = FALSE)
   or not (b = TRUE) *)
Resolved(b) ==
    {CheckInfo.ixs[i] : i \in {j \in 1..Len(CheckInfo.ixs) : CheckInfo.res[j].found = b}}

----------------------------------------------------------------------------
(* C2. Duplicate repair: when check_notes returns, every null-id card row   *)
(* for which canAddNotesWithErrorDetail reported the duplicate error is in *)
(* the table with the first id findNotes returned for its front, a note of *)
(* the store with that front; it is not logged; and it is not in the       *)
(* payload of the following addNotes call.                                 *)
C2_DuplicateRepair ==
    /\ Just("check_notes") =>
          \A ix \in Reported(IsDup) :
             /\ Len(RowsAt(df, ix)) = 1
             /\ LET r == RowsAt(df, ix)[1]
                IN /\ r.id # NaN
                   /\ \E k \in 1..Len(FindCalls) :
                         /\ FindCalls[k].ixs = <<ix>>
                         /\ FindCalls[k].arg = r.front
                         /\ r.id = FindCalls[k].res[1]
                   /\ r.id \in DOMAIN remote /\ remote[r.id].Front = r.front
             /\ ix \notin Logged
    /\ Just("upload_new_notes") => Reported(IsDup) \cap Submitted(calls, "addNotes") = {}

C2_Witness ==
    /\ Just("upload_new_notes")
    /\ Reported(IsDup) # {}
    /\ Submitted(calls, "addNotes") # {}

----------------------------------------------------------------------------
(* C3. Deletion repair: when check_notes returns, every row whose          *)
(* positionally matching notesInfo entry was empty has a null id and no    *)
(* identifier line, every row whose entry was not empty has the id that    *)
(* was queried; the next upload_new_notes has the cleared rows in its      *)
(* addNotes payload, which holds exactly the null-id card rows.            *)
C3_DeletionRepair ==
    /\ Just("check_notes") =>
          /\ \A ix \in Resolved(FALSE) :
                /\ Len(RowsAt(df, ix)) = 1
                /\ RowsAt(df, ix)[1].id = NaN
                /\ \A l \in Range(RowsAt(df, ix)[1].text) : l.k # "I"
          /\ \A i \in 1..Len(CheckInfo.ixs) :
                CheckInfo.res[i].found =>
                   /\ Len(RowsAt(df, CheckInfo.ixs[i])) = 1
                   /\ RowsAt(df, CheckInfo.ixs[i])[1].id = CheckInfo.arg[i]
    /\ Just("upload_new_notes") =>
          /\ Resolved(FALSE) \subseteq Submitted(calls, "addNotes")
          /\ Submitted(calls, "addNotes") = Range(Ixs(NewCards(last.df0)))

C3_Witness ==
    /\ Just("upload_new_notes")
    /\ Resolved(FALSE) # {}
    /\ Resolved(TRUE) # {}
    /\ Submitted(calls, "addNotes") \ Resolved(FALSE) # {}

----------------------------------------------------------------------------
(* C4. Positional assignment on upload: upload_new_notes submits the       *)
(* null-id card rows in table order; the k-th submitted row receives the   *)
(* k-th entry of the result: an identifier becomes the row's id and an     *)
(* identifier line with it follows the row's last line, a null entry       *)
(* leaves the row as it was; no other row changes.                         *)
C4_PositionalUpload ==
    Just("upload_new_notes") =>
        LET new == NewCards(last.df0)
        IN /\ Len(df) = Len(last.df0)
           /\ IF new = <<>> THEN AddCalls = <<>> ELSE
                 /\ Len(AddCalls) = 1
                 /\ AddCalls[1].ixs = Ixs(new)
                 /\ AddCalls[1].arg = Payload(new)
                 /\ Len(AddCalls[1].res) = Len(new)
           /\ \A i \in 1..Len(df) :
                 LET r0 == last.df0[i]
                 IN IF r0.is_card /\ r0.id = NaN
                    THEN \E k \in 1..Len(new) :
                            /\ new[k] = r0
                            /\ \A j \in 1..(k - 1) : new[j].ix # r0.ix
                            /\ LET res == AddCalls[1].res[k]
                               IN IF res # NaN
                                  THEN df[i] = [r0 EXCEPT !.id = res,
                                                  !.text = Append(r0.text, ILine(res))]
                                  ELSE df[i] = r0
                    ELSE df[i] = r0

C4_Witness ==
    /\ Just("upload_new_notes")
    /\ Len(AddCalls) = 1
    /\ \E i, j \in 1..Len(AddCalls[1].res) :
          i < j /\ AddCalls[1].res[i] # NaN /\ AddCalls[1].res[j] = NaN
    /\ \E i, j \in 1..Len(AddCalls[1].res) :
          i < j /\ AddCalls[1].res[i] # NaN /\ AddCalls[1].res[j] # NaN

----------------------------------------------------------------------------
(* The rows update_existing_notes queried, each with its notesInfo entry *)

Queried ==
    IF UpdateInfo = <<>> THEN <<>>
    ELSE [i \in 1..Len(UpdateInfo[1].ixs) |->
            [row |-> RowsAt(last.df0, UpdateInfo[1].ixs[i])[1], q |-> UpdateInfo[1].res[i]]]

Drifted(x) == x.q.found /\ Fields(x.row) # [Front |-> x.q.Front, Back |-> x.q.Back]

UpdatesFor(ix) == SelectSeq(UpdateCalls, LAMBDA c : c.ixs = <<ix>>)

OneUpdatePerDriftedRow ==
    /\ Len(Queried) = Len(OldCards(last.df0))
    /\ \A i \in 1..Len(Queried) :
          LET x == Queried[i]
          IN IF Drifted(x)
             THEN /\ Len(UpdatesFor(x.row.ix)) = 1
                  /\ UpdatesFor(x.row.ix)[1].arg = [id |-> x.row.id, fields |-> Fields(x.row)]
             ELSE x.q.found => UpdatesFor(x.row.ix) = <<>>

----------------------------------------------------------------------------
(* C7. Non-duplicate validation errors do not block other rows: a row      *)
(* whose canAddNotesWithErrorDetail error is not the duplicate string is   *)
(* logged with that error, holds no id, and is in no addNotes or           *)
(* updateNote payload for the rest of the run; in the same run the rows    *)
(* without an error are submitted by upload_new_notes and the duplicate    *)
(* rows are repaired.                                                      *)
C7_OtherErrorsDoNotBlock ==
    /\ After("check_notes") =>
          \A ix \in Reported(IsOther) :
             /\ \A i \in 1..Len(df) : df[i].ix = ix => df[i].id = NaN
             /\ ix \notin Submitted(calls, "addNotes") \cup Submitted(calls, "updateNote")
    /\ (Just("check_notes") /\ Reported(IsOther) # {}) =>
          /\ Logged = Reported(IsOther)
          /\ \A k \in (last.e0 + 1)..Len(errlog) : \A i \in 1..Len(errlog[k]) :
                errlog[k][i].error = EmptyError
          /\ \A ix \in Reported(IsDup) :
                Len(RowsAt(df, ix)) = 1 /\ RowsAt(df, ix)[1].id # NaN
          /\ \A ix \in Reported(IsNone) :
                Len(RowsAt(df, ix)) = 1 /\ RowsAt(df, ix)[1].id = NaN
    /\ (After("upload_new_notes") /\ Reported(IsOther) # {}) =>
          Reported(IsNone) \subseteq Submitted(calls, "addNotes")

C7_Witness ==
    /\ Just("update_existing_notes")
    /\ Reported(IsOther) # {}
    /\ Reported(IsNone) # {}
    /\ Reported(IsDup) # {}

----------------------------------------------------------------------------
(* C8. Deck placement: when check_notes returns, the note of every card    *)
(* row that holds an id is in the deck deckName; check_notes issues at     *)
(* most one changeDeck call, and it carries exactly the ids getDecks       *)
(* reported under another deck name.                                       *)
C8_DeckPlacement ==
    Just("check_notes") =>
        /\ \A i \in 1..Len(df) :
              (df[i].is_card /\ df[i].id # NaN) =>
                 df[i].id \in DOMAIN remote /\ remote[df[i].id].deck = DeckName
        /\ Len(ChangeDeckCalls) <= 1
        /\ Len(ChangeDeckCalls) = Len(GetDecksCalls)
        /\ \A k \in 1..Len(ChangeDeckCalls) :
              /\ ChangeDeckCalls[k].res = DeckName
              /\ Range(ChangeDeckCalls[k].arg) =
                    UNION {Range(GetDecksCalls[k].res[key]) :
                           key \in DOMAIN GetDecksCalls[k].res \ {DeckName}}

C8_Witness ==
    /\ Just("check_notes")
    /\ Len(ChangeDeckCalls) = 1
    /\ ChangeDeckCalls[1].arg # <<>>
    /\ Resolved(TRUE) \ Submitted(ChangeDeckCalls, "changeDeck") # {}
    /\ \E i \in 1..Len(CheckInfo.arg) :
          CheckInfo.res[i].found /\ CheckInfo.arg[i] \notin Range(ChangeDeckCalls[1].arg)

----------------------------------------------------------------------------
(* C9 as claimed: when a remote call made inside check_notes,              *)
(* upload_new_notes or update_existing_notes fails, the table equals the   *)
(* table as it was when the operation started.                             *)
C9_TableUnchangedOnFailure ==
    (last.out = "transport"
       /\ last.op \in {"check_notes", "upload_new_notes", "update_existing_notes"})
    => df = last.df0

----------------------------------------------------------------------------
(* C10 as claimed: when a run is aborted by a failed remote call after     *)
(* upload_new_notes created notes, a later complete run on the unchanged   *)
(* document (the store left alone) creates no second note for any of those *)
(* rows, and each of them ends with the id of the note the aborted run     *)
(* created.                                                                *)
C10_Resumable ==
    (pc = "saved" /\ prev.out = "aborted" /\ env = 0) =>
        \A c \in Range(CallsOf(prev.calls, "upload_new_notes", "addNotes")) :
           \A k \in 1..Len(c.ixs) :
              c.res[k] # NaN =>
                 /\ c.ixs[k] \notin Created(calls)
                 /\ Len(RowsAt(df, c.ixs[k])) = 1
                 /\ RowsAt(df, c.ixs[k])[1].id = c.res[k]

----------------------------------------------------------------------------
(* The new notes of the file as card_gen yields them, with the offsets recorded at
   parse time *)
ParsedNew == SelectSeq(card_gen(lfile), LAMBDA y : y.card.id = NoneId)

RECURSIVE DropAt(_, _)
DropAt(lines, P) ==
    IF lines = <<>> THEN <<>>
    ELSE DropAt(SubSeq(lines, 1, Len(lines) - 1), P)
         \o (IF Len(lines) \in P THEN <<>> ELSE <<lines[Len(lines)]>>)

(* the position in allNotes of the i-th new note of the file *)
newNotes0(i) ==
    LET g == card_gen(lfile)
    IN SelectSeq([k \in 1..Len(g) |-> k], LAMBDA k : g[k].card.id = NoneId)[i]

(* C5. Offset correctness: after the insertions of bulk_upload, for the N  *)
(* new notes with parse-time offsets o1 < ... < oN, the i-th identifier    *)
(* line is at index o_i + (i-1) of file_lines, directly after its card's   *)
(* last content line and before that card's terminating line, and the      *)
(* other lines are the lines of the file in their order.                   *)
C5_OffsetCorrectness ==
    lpc \in {"uploaded", "crashed"} =>
        LET o == [i \in 1..Len(ParsedNew) |-> ParsedNew[i].index]
            N == Len(o)
            at(i) == o[i] + (i - 1) + 1
        IN /\ Len(file_lines) = Len(lfile) + N
           /\ \A i \in 1..(N - 1) : o[i] < o[i + 1]
           /\ \A i \in 1..N :
                 /\ file_lines[at(i)] = id_format(allNotes[newNotes0(i)].id)
                 /\ file_lines[at(i) - 1] = lfile[o[i]]
                 /\ file_lines[at(i) - 1].k \in {"Q", "A"}
                 /\ file_lines[at(i) + 1] = lfile[o[i] + 1]
                 /\ file_lines[at(i) + 1].k \in {"P", "T"}
           /\ DropAt(file_lines, {at(i) : i \in 1..N}) = lfile

C5_Witness ==
    /\ lpc = "uploaded"
    /\ Len(ParsedNew) >= 2
    /\ \E y \in Range(card_gen(lfile)) :
          /\ y.card.id # NoneId
          /\ ParsedNew[1].index < y.index
          /\ y.index < ParsedNew[2].index
    /\ file_lines[ParsedNew[2].index + 2].k = "I"

----------------------------------------------------------------------------
(* Identifiers the store has assigned so far, and rows that carried one in  *)
(* the file the table was read from                                         *)

StoreAssigned(i) == i \in 1..(nextId - 1)

(* The rows of the file the table was read from *)
Parsed == from_file(doc)

HadId(ix) ==
    LET rs == RowsAt(Parsed, ix) IN rs # <<>> /\ rs[1].id # NaN

IsIdentifier(id) == id.s = "" /\ id.n # NaN

(* C11 as claimed: at every boundary between operations (in the first run,  *)
(* where the file is the one the run began with) a card row's id is null    *)
(* if and only if the row was never created remotely, in an earlier run     *)
(* (it carried an id in the file) or in this one (addNotes returned an id   *)
(* for it), and a non-null id is an identifier the store assigned; after    *)
(* the legacy bulk_upload the same holds of every note of allNotes.         *)
C11_IdentifierInvariant ==
    /\ (run = 1 /\ last.out = "ok"
          /\ last.op \in {"from_file", "check_notes", "upload_new_notes",
                          "update_existing_notes"}) =>
          \A i \in 1..Len(df) :
             df[i].is_card =>
                /\ df[i].id # NaN => StoreAssigned(df[i].id)
                /\ (df[i].id = NaN) <=>
                      ~(HadId(df[i].ix) \/ df[i].ix \in Created(calls))
    /\ lpc = "uploaded" =>
          \A i \in 1..Len(allNotes) :
             LET had == card_gen(lfile)[i].card.id
             IN /\ allNotes[i].id # NoneId =>
                      IsIdentifier(allNotes[i].id) /\ StoreAssigned(allNotes[i].id.n)
                /\ (allNotes[i].id = NoneId) <=>
                      (had = NoneId /\ ~IsIdentifier(allNotes[i].id))

----------------------------------------------------------------------------
StrictlyIncreasing(s) == \A i \in 1..(Len(s) - 1) : s[i] < s[i + 1]

IdLines(text) == SelectSeq(text, LAMBDA l : l.k = "I")

----------------------------------------------------------------------------
(* check_deck called repeatedly on the same NoteSet: from_file, then up to  *)
(* MaxChecks calls of check_deck, a failed call ending the run.             *)

MaxChecks == 3

CheckDeckAgain ==
    /\ pc \in {"loaded", "deck_checked"}
    /\ Len(CallsOf(calls, "check_deck", "deck_exists")) < MaxChecks
    /\ \E f \in 0..2 :
          LET o == check_deck(decks, f)
          IN /\ f > 0 => o.out = "transport" /\ fails < MaxFails
             /\ pc' = IF o.out = "ok" THEN "deck_checked" ELSE "aborted"
             /\ decks' = o.decks
             /\ calls' = calls \o o.calls
             /\ last' = [op |-> "check_deck", out |-> o.out, df0 |-> df, e0 |-> Len(errlog)]
             /\ fails' = IF o.out = "transport" THEN fails + 1 ELSE fails
    /\ UNCHANGED <<doc, df, remote, nextId, errlog, prev, run, env, lvars>>

NextDeck ==
    \/ FromFile
    \/ CheckDeckAgain

SpecDeck == Init /\ [][NextDeck]_vars

DeckCalls == SelectSeq(prev.calls \o calls, LAMBDA c : c.op = "check_deck")

(* C13. check_deck is idempotent: when check_deck returns, the deck named  *)
(* deckName exists in the store; over all the check_deck calls made (no    *)
(* deck is deleted in between) createDeck is called at most once, and only *)
(* directly after a deck_exists call that answered that the deck does not  *)
(* exist.                                                                  *)
C13_CheckDeckIdempotent ==
    /\ Just("check_deck") => DeckName \in decks
    /\ Len(SelectSeq(DeckCalls, LAMBDA c : c.act = "createDeck")) <= 1
    /\ \A k \in 1..Len(DeckCalls) :
          DeckCalls[k].act = "createDeck" =>
             /\ k > 1
             /\ DeckCalls[k - 1].act = "deck_exists"
             /\ DeckCalls[k - 1].res = FALSE

C13_Witness ==
    /\ Just("check_deck")
    /\ Len(CallsOf(calls, "check_deck", "deck_exists")) = MaxChecks
    /\ Len(CallsOf(calls, "check_deck", "createDeck")) = 1


----------------------------------------------------------------------------
(* All the addNotes calls of the current run, whichever operation made them *)
AllAddCalls == SelectSeq(calls, LAMBDA c : c.act = "addNotes")

(* the index labels, in table order, of the card rows of d without an id *)
NullIdCardIxs(d) ==
    LET s == SelectSeq(d, LAMBDA r : r.is_card /\ r.id = NaN)
    IN [i \in 1..Len(s) |-> s[i].ix]

(* C14. Single batch creation, no retry: the run makes at most one         *)
(* addNotes call, made by upload_new_notes; it holds every card row that   *)
(* had a null id when upload_new_notes began exactly once, in table order, *)
(* and no other row; there is no call when there is no such row; a row the *)
(* store returned no identifier for is not sent again in the same run.     *)
C14_SingleBatch ==
    /\ Len(AllAddCalls) <= 1
    /\ AllAddCalls = AddCalls
    /\ Just("upload_new_notes") =>
          IF NullIdCardIxs(last.df0) = <<>>
          THEN AllAddCalls = <<>>
          ELSE /\ Len(AllAddCalls) = 1
               /\ AllAddCalls[1].ixs = NullIdCardIxs(last.df0)
               /\ \A i, j \in 1..Len(AllAddCalls[1].ixs) :
                     AllAddCalls[1].ixs[i] = AllAddCalls[1].ixs[j] => i = j

C14_Witness ==
    /\ pc = "updated"
    /\ Len(AllAddCalls) = 1
    /\ \E i \in 1..Len(AllAddCalls[1].res) : AllAddCalls[1].res[i] = NaN
    /\ \E i \in 1..Len(AllAddCalls[1].res) : AllAddCalls[1].res[i] # NaN
    /\ \E i \in 1..Len(df) :
          df[i].is_card /\ df[i].id # NaN /\ df[i].ix \notin Range(AllAddCalls[1].ixs)


----------------------------------------------------------------------------
(* The calls of check_notes in the current run, and the ids its calls name *)
CheckCalls == SelectSeq(calls, LAMBDA c : c.op = "check_notes")

AdoptedIds == {FindCalls[k].res[1] : k \in 1..Len(FindCalls)}

InfoIds(b) ==
    {CheckInfo.arg[i] : i \in {j \in 1..Len(CheckInfo.arg) : CheckInfo.res[j].found = b}}

(* C15. Deck placement uses post-repair identifiers: the calls of          *)
(* check_notes are, in this order, canAddNotesWithErrorDetail, one         *)
(* findNotes per duplicate row, notesInfo and, when some row resolved,     *)
(* getDecks and changeDeck; the getDecks query holds exactly the ids that  *)
(* resolved, among them the ids the duplicate repair adopted in this call, *)
(* and no id of a row the deletion check found deleted.                    *)
C15_DeckAfterRepair ==
    Just("check_notes") =>
        LET nf == Len(FindCalls)
            n == Len(CheckCalls)
        IN /\ nf = Cardinality(Reported(IsDup))
           /\ n \in {nf + 2, nf + 4}
           /\ CheckCalls[1].act = "canAddNotesWithErrorDetail"
           /\ \A k \in 2..(nf + 1) : CheckCalls[k].act = "findNotes"
           /\ CheckCalls[nf + 2].act = "notesInfo"
           /\ n = nf + 4 =>
                 /\ CheckCalls[nf + 3].act = "getDecks"
                 /\ CheckCalls[nf + 4].act = "changeDeck"
           /\ IF InfoIds(TRUE) = {}
              THEN n = nf + 2
              ELSE /\ n = nf + 4
                   /\ Range(CheckCalls[nf + 3].arg) = InfoIds(TRUE)
                   /\ AdoptedIds \subseteq Range(CheckCalls[nf + 3].arg)
                   /\ Range(CheckCalls[nf + 3].arg) \cap InfoIds(FALSE) = {}

C15_Witness ==
    /\ Just("check_notes")
    /\ AdoptedIds # {}
    /\ InfoIds(TRUE) \ AdoptedIds # {}
    /\ InfoIds(FALSE) # {}
    /\ Len(GetDecksCalls) = 1

----------------------------------------------------------------------------
NonCardIxs(d) == {d[i].ix : i \in {j \in 1..Len(d) : ~d[j].is_card}}

CardIds(d) == {d[i].id : i \in {j \in 1..Len(d) : d[j].is_card}}

(* C16. Non-card rows are outside every card operation: no call of the run *)
(* names the frontmatter row or another row that is not a card (the ids of *)
(* notesInfo and getDecks are those of the card rows named, the ids of     *)
(* changeDeck are ids of card rows), and check_notes, upload_new_notes and *)
(* update_existing_notes leave every row that is not a card as it was.     *)
C16_NonCardRowsUntouched ==
    /\ pc \in {"deck_checked", "notes_checked", "uploaded", "updated", "aborted"} =>
          LET p == Parsed
              named == UNION {Range(calls[k].ixs) : k \in 1..Len(calls)}
          IN /\ named \cap NonCardIxs(p) = {}
             /\ \A ix \in named : RowsAt(p, ix) # <<>> /\ RowsAt(p, ix)[1].is_card
             /\ \A k \in 1..Len(calls) :
                   /\ calls[k].act = "changeDeck" =>
                         Range(calls[k].arg) \subseteq CardIds(df) \ {NaN}
                   /\ calls[k].act \in {"notesInfo", "getDecks"} =>
                         Len(calls[k].arg) = Len(calls[k].ixs)
    /\ last.op \in {"check_notes", "upload_new_notes", "update_existing_notes"} =>
          \A i \in 1..Len(last.df0) :
             ~last.df0[i].is_card => RowsAt(df, last.df0[i].ix) = <<last.df0[i]>>

C16_Witness ==
    /\ pc = "updated"
    /\ FindCalls # <<>>
    /\ AddCalls # <<>>
    /\ UpdateCalls # <<>>
    /\ Len(ChangeDeckCalls) = 1
    /\ ChangeDeckCalls[1].arg # <<>>
    /\ Cardinality(NonCardIxs(df)) >= 2


----------------------------------------------------------------------------
(* C17 as claimed: no content is lost over a run: the lines save_file      *)
(* writes after check_notes, upload_new_notes and update_existing_notes    *)
(* are the lines of the file the run began with, identifier lines aside.   *)
C17_NoContentLost ==
    pc = "updated" => NoIdText(save_file(df)) = NoIdText(doc)

----------------------------------------------------------------------------
(* C18 as claimed: after check_notes, upload_new_notes and                 *)
(* update_existing_notes no two card rows hold the same non-null id, and   *)
(* no note receives two updateNote calls with different fields in one      *)
(* update_existing_notes.                                                  *)
C18_UniqueIds ==
    /\ last.op \in {"check_notes", "upload_new_notes", "update_existing_notes"} =>
          \A i, j \in 1..Len(df) :
             (i < j /\ df[i].is_card /\ df[j].is_card /\ df[i].id # NaN) =>
                df[i].id # df[j].id
    /\ \A a, b \in 1..Len(UpdateCalls) :
          UpdateCalls[a].arg.id = UpdateCalls[b].arg.id =>
             UpdateCalls[a].arg.fields = UpdateCalls[b].arg.fields

----------------------------------------------------------------------------
(* the position in the notesInfo query of update_existing_notes of the row ix *)
QueriedAt(ix) ==
    CHOOSE i \in 1..Len(UpdateInfo[1].ixs) : UpdateInfo[1].ixs[i] = ix

(* C19. update_existing_notes is all-or-nothing with respect to stale ids: *)
(* when notesInfo returned an empty entry for some queried id the          *)
(* operation raises, no updateNote call is made, and the table and the     *)
(* store are as they were; otherwise every updateNote call is made for a   *)
(* row whose own notesInfo entry, the one at the row's position in the     *)
(* query, differs from the row's fields.                                   *)
C19_StaleIdsAllOrNothing ==
    (last.op = "update_existing_notes" /\ UpdateInfo # <<>>) =>
        IF \E i \in 1..Len(UpdateInfo[1].res) : ~UpdateInfo[1].res[i].found
        THEN /\ last.out = "crash"
             /\ pc = "aborted"
             /\ UpdateCalls = <<>>
             /\ df = last.df0
             /\ \A i \in 1..Len(UpdateInfo[1].res) :
                   UpdateInfo[1].res[i].found =>
                      /\ UpdateInfo[1].arg[i] \in DOMAIN remote
                      /\ remote[UpdateInfo[1].arg[i]].Front = UpdateInfo[1].res[i].Front
                      /\ remote[UpdateInfo[1].arg[i]].Back = UpdateInfo[1].res[i].Back
        ELSE /\ last.out # "crash"
             /\ UpdateInfo[1].ixs = Ixs(OldCards(last.df0))
             /\ UpdateInfo[1].arg = IdsOf(OldCards(last.df0))
             /\ \A k \in 1..Len(UpdateCalls) :
                   LET ix == UpdateCalls[k].ixs[1]
                       q == UpdateInfo[1].res[QueriedAt(ix)]
                       r == RowsAt(last.df0, ix)[1]
                   IN /\ UpdateCalls[k].arg = [id |-> r.id, fields |-> Fields(r)]
                      /\ UpdateInfo[1].arg[QueriedAt(ix)] = r.id
                      /\ Fields(r) # [Front |-> q.Front, Back |-> q.Back]

C19_Witness ==
    /\ last.op = "update_existing_notes"
    /\ last.out = "crash"
    /\ \E i, j \in 1..Len(Queried) :
          /\ ~Queried[i].q.found
          /\ Drifted(Queried[j])

----------------------------------------------------------------------------
(* C20 as claimed (legacy NoteSet): after bulk_upload and its sort_notes,   *)
(* existingNotes and newNotes partition allNotes, every note of             *)
(* existingNotes has an identifier the store assigned, every note the store *)
(* refused is in newNotes with id None, and the lines inserted into         *)
(* file_lines are identifier lines.                                         *)
C20_LegacySortedNotes ==
    lpc = "uploaded" =>
        /\ Range(existingNotes) \cup Range(newNotes) = 1..Len(allNotes)
        /\ Range(existingNotes) \cap Range(newNotes) = {}
        /\ \A k \in Range(existingNotes) :
              IsIdentifier(allNotes[k].id) /\ StoreAssigned(allNotes[k].id.n)
        /\ \A i \in 1..Len(allNotes) :
              ~IsIdentifier(allNotes[i].id) =>
                 allNotes[i].id = NoneId /\ i \in Range(newNotes)
        /\ \A l \in Range(file_lines) : l \in Range(lfile) \/ l.k = "I"

----------------------------------------------------------------------------
(* The cards card_gen yields from the file, as (card, index) pairs *)
Yielded == card_gen(lfile)

(* 0-based index of the first line after the terminating line of the card  *)
(* yielded before the k-th one                                             *)
AfterPrevious(gen, k) == IF k = 1 THEN 0 ELSE gen[k - 1].index + 1

(* 0-based index of the k-th card's question line: the first question line *)
(* after the previous card                                                 *)
QuestionLine(gen, k) ==
    CHOOSE q \in AfterPrevious(gen, k)..gen[k].index :
        /\ lfile[q + 1].k = "Q"
        /\ \A r \in AfterPrevious(gen, k)..(q - 1) : lfile[r + 1].k # "Q"

(* the lines from the k-th card's question line to its terminating line *)
CardLinesOf(gen, k) == SubSeq(lfile, QuestionLine(gen, k) + 1, gen[k].index + 1)

KindOnly(lines, kind) == SelectSeq(lines, LAMBDA l : l.k = kind)

(* C21 as claimed (legacy parser): for every card card_gen yields, the     *)
(* yielded index is the index of the card's terminating line, and the      *)
(* card's Front, Back and id come only from the lines between its question *)
(* line and its terminating line: the Front is that of a question line     *)
(* among them, the Back is made of their answer lines in order, and the id *)
(* is that of their last identifier line, None when they have none. An     *)
(* identifier or answer line before the question line contributes nothing. *)
C21_CardGenIsolatesCards ==
    lpc = "created" =>
        LET gen == Yielded
        IN /\ allNotes = [k \in 1..Len(gen) |-> gen[k].card]
           /\ \A k \in 1..Len(gen) :
                 LET own == CardLinesOf(gen, k)
                     qs == KindOnly(own, "Q")
                     as == KindOnly(own, "A")
                     is == KindOnly(own, "I")
                 IN /\ lfile[gen[k].index + 1].k \in {"P", "T"}
                    /\ \E j \in 1..Len(qs) : allNotes[k].Front = qs[j].f
                    /\ allNotes[k].Back = [j \in 1..Len(as) |-> as[j].f]
                    /\ allNotes[k].id =
                          IF is = <<>> THEN NoneId ELSE IntId(is[Len(is)].n)


=============================================================================
